---- MODULE Spec2Model ----
(***************************************************************************)
(* Model of src/data/parse_pricebook.py: the line classifier, the section  *)
(* tracker, the row parser, the router and the loop of parse_pdf that      *)
(* folds them over the lines of a document.                                *)
(*                                                                         *)
(* A Python str is a sequence of one-character strings, so that strip,     *)
(* split, lower, containment and the two regular expressions are computed  *)
(* character by character.  File names are kept as plain strings: the code *)
(* only compares them and uses them as dictionary keys.  The partition the *)
(* specification calls boilers_combi_ng is the key "boilers_combi_ng.csv". *)
(***************************************************************************)
EXTENDS Integers, Sequences, FiniteSets, TLC

\* ---------------------------------------------------------------- bounds

\* Lines read over the whole document.
MaxLines == 3
\* Labels joined into one section or subsection given to the router.
MaxParts == 2

\* ------------------------------------------------------------ characters

UpperLetters == <<"A","B","C","D","E","F","G","H","I","J","K","L","M","N","O","P","Q","R","S","T","U","V","W","X","Y","Z">>
LowerLetters == <<"a","b","c","d","e","f","g","h","i","j","k","l","m","n","o","p","q","r","s","t","u","v","w","x","y","z">>
Digits == {"0", "1", "2", "3", "4", "5", "6", "7", "8", "9"}
\* The whitespace of the modelled alphabet (str.strip, str.split, \s).
Whitespace == {" ", "\t"}
Empty == << >>

Range(f) == {f[i] : i \in DOMAIN f}
Min(S) == CHOOSE x \in S : \A y \in S : x <= y
Max(S) == CHOOSE x \in S : \A y \in S : y <= x
UpperSet == Range(UpperLetters)
LowerSet == Range(LowerLetters)
IsUpper(c) == c \in UpperSet
IsDigit(c) == c \in Digits
Index(alphabet, c) == CHOOSE i \in DOMAIN alphabet : alphabet[i] = c

LowerOf == [c \in UpperSet |-> LowerLetters[Index(UpperLetters, c)]]
UpperOf == [c \in LowerSet |-> UpperLetters[Index(LowerLetters, c)]]
LowerChar(c) == IF c \in UpperSet THEN LowerOf[c] ELSE c
UpperChar(c) == IF c \in LowerSet THEN UpperOf[c] ELSE c
DigitValue(c) == Index(<<"0","1","2","3","4","5","6","7","8","9">>, c) - 1

\* ------------------------------------------------------- str operations

lower(s) == [i \in 1..Len(s) |-> LowerChar(s[i])]
upper(s) == [i \in 1..Len(s) |-> UpperChar(s[i])]

\* sub in s
In(sub, s) == \E i \in 0..(Len(s) - Len(sub)) : \A j \in 1..Len(sub) : s[i + j] = sub[j]

\* The first position from `from` on whose character is not in chars (is in
\* chars), Len(s) + 1 when there is none; the last position whose character
\* is not in chars, 0 when there is none.
FirstNotIn(s, chars, from) ==
    CHOOSE k \in from..(Len(s) + 1) :
        /\ k = Len(s) + 1 \/ s[k] \notin chars
        /\ \A j \in from..(k - 1) : s[j] \in chars
FirstIn(s, chars, from) ==
    CHOOSE k \in from..(Len(s) + 1) :
        /\ k = Len(s) + 1 \/ s[k] \in chars
        /\ \A j \in from..(k - 1) : s[j] \notin chars
LastNotIn(s, chars) ==
    CHOOSE k \in 0..Len(s) :
        /\ k = 0 \/ s[k] \notin chars
        /\ \A j \in (k + 1)..Len(s) : s[j] \in chars

\* s.strip(chars), s.rstrip(chars), s.lstrip(chars)
strip_chars(s, chars) == SubSeq(s, FirstNotIn(s, chars, 1), LastNotIn(s, chars))
rstrip_chars(s, chars) == SubSeq(s, 1, LastNotIn(s, chars))
lstrip_chars(s, chars) == SubSeq(s, FirstNotIn(s, chars, 1), Len(s))
strip(s) == strip_chars(s, Whitespace)

\* s.split(): the maximal runs of non-whitespace characters, in order.
RECURSIVE split(_)
split(s) ==
    LET t == lstrip_chars(s, Whitespace)
    IN IF t = Empty THEN << >>
       ELSE LET n == FirstIn(t, Whitespace, 1) - 1
            IN << SubSeq(t, 1, n) >> \o split(SubSeq(t, n + 1, Len(t)))

\* Characters str.isdigit() accepts and int() does not read (the superscript
\* digits); \d of the patterns does not match them.
OtherDigits == {"²"}

\* s.isdigit()
isdigit(s) == s # Empty /\ \A i \in 1..Len(s) : IsDigit(s[i]) \/ s[i] \in OtherDigits

\* int(s) of a string of digits ; a negative result stands for the ValueError
\* int() raises on a character it does not read.
RECURSIVE int(_)
int(s) ==
    IF s = Empty THEN 0
    ELSE LET front == int(SubSeq(s, 1, Len(s) - 1))
         IN IF front < 0 \/ ~IsDigit(s[Len(s)]) THEN 0 - 1
            ELSE 10 * front + DigitValue(s[Len(s)])

\* s.replace(c, '')
RECURSIVE remove(_, _)
remove(s, c) ==
    IF s = Empty THEN Empty
    ELSE (IF Head(s) = c THEN Empty ELSE << Head(s) >>) \o remove(Tail(s), c)

\* " ".join(parts)
RECURSIVE join(_)
join(parts) ==
    IF parts = << >> THEN Empty
    ELSE IF Len(parts) = 1 THEN parts[1]
    ELSE parts[1] \o << " " >> \o join(Tail(parts))

\* A float read from a decimal literal, kept exactly as mant / 10^exp with no
\* trailing zero in the fraction, so that equal values are equal records
\* (850.00 and 850 are both [mant |-> 850, exp |-> 0]).  Rounding to a binary
\* double is not modelled; it does not change which literals read as 0.0
\* within the lengths modelled.
RECURSIVE Normalise(_, _)
Normalise(mant, exp) ==
    IF exp > 0 /\ mant % 10 = 0 THEN Normalise(mant \div 10, exp - 1)
    ELSE [mant |-> mant, exp |-> exp]
Zero == [mant |-> 0, exp |-> 0]

\* float(s) for s made of digits and at most one point ; "ValueError" when s
\* holds no digit.
ValueError == [mant |-> -1, exp |-> 0]
float(s) ==
    LET p == FirstIn(s, {"."}, 1)
        whole == SubSeq(s, 1, p - 1)
        frac == SubSeq(s, p + 1, Len(s))
    IN IF whole = Empty /\ frac = Empty THEN ValueError
       ELSE Normalise(int(whole \o frac), Len(frac))

\* ------------------------------------------------------------ the tables

\* FILE_MAPPING, in the order of the dictionary (the order every pass of
\* determine_output_file iterates in).
FILE_MAPPING == <<
    [filename |-> "core_packs.csv",
     sections |-> << <<"C","o","r","e"," ","P","a","c","k","s">> >>,
     subsections |-> << <<"F","u","l","l"," ","S","y","s","t","e","m">>,
                         <<"P","a","r","t"," ","S","y","s","t","e","m">> >>,
     keywords |-> << >>],
    [filename |-> "electrics_and_waste.csv",
     sections |-> << <<"E","l","e","c","t","r","i","c","s","/","W","a","s","t","e","/","F","i","l","l","i","n","g"," ","L","o","o","p","s","/","G","D","A","/","R","e","m","o","t","e"," ","P","R","V","s">>,
                      <<"E","l","e","c","t","r","i","c","s">>,
                      <<"W","a","s","t","e">> >>,
     subsections |-> << <<"E","l","e","c","t","r","i","c","s","/","W","a","s","t","e","/","F","i","l","l","i","n","g"," ","L","o","o","p","s","/","G","D","A","/","R","e","m","o","t","e"," ","P","R","V","s">> >>,
     keywords |-> << <<"f","i","l","l","i","n","g"," ","l","o","o","p">>,
                      <<"r","e","m","o","t","e"," ","p","r","v">>,
                      <<"w","a","s","t","e"," ","c","o","l","l","e","c","t","i","o","n">>,
                      <<"e","l","e","c","t","r","i","c","s">> >>],
    [filename |-> "controls_and_stats.csv",
     sections |-> << <<"C","o","n","t","r","o","l","s">>,
                      <<"W","i","r","i","n","g"," ","C","e","n","t","r","e","s">>,
                      <<"S","t","a","t","s">>,
                      <<"T","i","m","e","r","s">>,
                      <<"P","r","o","g","r","a","m","m","e","r","s">>,
                      <<"C","O"," ","A","l","a","r","m","s">> >>,
     subsections |-> << <<"C","o","n","t","r","o","l","s"," ","*","*","*","U","P","G","R","A","D","E"," ","O","N","L","Y"," ","J","O","B","S">> >>,
     keywords |-> << <<"w","i","r","i","n","g">>,
                      <<"s","t","a","t">>,
                      <<"t","i","m","e","r">>,
                      <<"p","r","o","g","r","a","m","m","e","r">>,
                      <<"t","h","e","r","m","o","s","t","a","t">>,
                      <<"c","o","n","t","r","o","l">> >>],
    [filename |-> "smart_hive.csv",
     sections |-> << <<"S","m","a","r","t"," ","/"," ","H","i","v","e">>,
                      <<"H","i","v","e">>,
                      <<"S","m","a","r","t">>,
                      <<"H","i","v","e"," ","A","c","t","i","v","e"," ","H","e","a","t","i","n","g">>,
                      <<"H","i","v","e"," ","a","d","d","i","t","i","o","n","a","l"," ","P","r","o","d","u","c","t","s">>,
                      <<"H","i","v","e"," ","V","i","e","w">>,
                      <<"H","i","v","e"," ","T","R","V">>,
                      <<"H","i","v","e"," ","H","u","b","s">> >>,
     subsections |-> << <<"H","i","v","e"," ","A","c","t","i","v","e"," ","H","e","a","t","i","n","g">>,
                         <<"H","i","v","e"," ","T","R","V">>,
                         <<"H","i","v","e"," ","H","u","b","s">>,
                         <<"P","r","o","d","u","c","t"," ","B","u","n","d","l","e","s">>,
                         <<"F","r","a","m","e","s"," ","a","n","d"," ","S","t","a","n","d">>,
                         <<"B","o","i","l","e","r"," ","I","Q">> >>,
     keywords |-> << <<"h","i","v","e">>,
                      <<"b","o","i","l","e","r"," ","i","q">> >>],
    [filename |-> "boilers_combi_ng.csv",
     sections |-> << <<"B","o","i","l","e","r","s">>,
                      <<"B","O","I","L","E","R","S">> >>,
     subsections |-> << <<"C","o","m","b","i"," ","N","a","t","u","r","a","l"," ","G","a","s">> >>,
     keywords |-> << >>],
    [filename |-> "boilers_combi_lpg.csv",
     sections |-> << <<"B","o","i","l","e","r","s">>,
                      <<"B","O","I","L","E","R","S">> >>,
     subsections |-> << <<"C","o","m","b","i"," ","L","P","G">> >>,
     keywords |-> << >>],
    [filename |-> "boilers_other.csv",
     sections |-> << <<"B","o","i","l","e","r","s">>,
                      <<"B","O","I","L","E","R","S">> >>,
     subsections |-> << <<"S","y","s","t","e","m">>,
                         <<"R","e","g","u","l","a","r">>,
                         <<"S","y","s","t","e","m"," ","N","a","t","u","r","a","l"," ","G","a","s">>,
                         <<"S","y","s","t","e","m"," ","L","P","G">>,
                         <<"R","e","g","u","l","a","r"," ","N","a","t","u","r","a","l"," ","G","a","s">>,
                         <<"R","e","g","u","l","a","r"," ","L","P","G">>,
                         <<"C","o","n","v","e","n","t","i","o","n","a","l"," ","N","a","t","u","r","a","l"," ","G","a","s">>,
                         <<"C","o","n","v","e","n","t","i","o","n","a","l"," ","L","P","G">> >>,
     keywords |-> << >>],
    [filename |-> "heat_pumps_and_ashp_labour.csv",
     sections |-> << <<"H","e","a","t"," ","P","u","m","p","s">>,
                      <<"A","S","H","P">>,
                      <<"A","i","r"," ","S","o","u","r","c","e"," ","H","e","a","t"," ","P","u","m","p">> >>,
     subsections |-> << <<"R","a","d","i","a","t","o","r"," ","I","n","s","t","a","l","l","a","t","i","o","n"," ","P","a","c","k","s">>,
                         <<"R","a","d","i","a","t","o","r"," ","I","n","s","t","a","l","l","a","t","i","o","n"," ","B","u","n","d","l","e","s">>,
                         <<"F","i","r","e",","," ","F","l","u","e"," ","L","i","n","e","r",","," ","&"," ","M","u","l","t","i","p","o","i","n","t"," ","I","n","s","t","a","l","l","a","t","i","o","n"," ","P","a","c","k","s">>,
                         <<"R","a","d","i","a","t","o","r"," ","A","c","c","e","s","s","o","r","i","e","s">> >>,
     keywords |-> << <<"h","e","a","t"," ","p","u","m","p">>,
                      <<"a","s","h","p">>,
                      <<"a","r","o","t","h","e","m">> >>],
    [filename |-> "radiators_and_valves.csv",
     sections |-> << <<"R","a","d","i","a","t","o","r"," ","V","a","l","v","e","s">>,
                      <<"M","y","s","o","n"," ","R","a","d","i","a","t","o","r","s">>,
                      <<"R","a","d","i","a","t","o","r","s">>,
                      <<"P","r","i","c","e"," ","T","e","s","t">> >>,
     subsections |-> << <<"R","a","d","i","a","t","o","r"," ","V","a","l","v","e","s">>,
                         <<"P","o","w","e","r","c","l","e","a","n","s","e",","," ","P","o","w","e","r","f","l","u","s","h",","," ","M","a","g","n","e","t","i","c"," ","F","i","l","t","e","r",","," ","&"," ","C","o","m","b","i","s","a","v","e">>,
                         <<"S","t","e","l","r","a","d"," ","R","a","d","i","a","t","o","r","s">>,
                         <<"M","y","s","o","n"," ","R","a","d","i","a","t","o","r","s">>,
                         <<"R","a","d","i","a","t","o","r"," ","P","l","a","c","e","h","o","l","d","e","r","s">>,
                         <<"C","l","a","s","s","i","c"," ","T","o","w","e","l"," ","W","a","r","m","e","r","s">> >>,
     keywords |-> << <<"r","a","d","i","a","t","o","r">>,
                      <<"p","o","w","e","r","f","l","u","s","h">>,
                      <<"s","t","e","l","r","a","d">>,
                      <<"m","y","s","o","n">>,
                      <<"t","o","w","e","l"," ","w","a","r","m","e","r">> >>],
    [filename |-> "flues_worcester.csv",
     sections |-> << <<"W","o","r","c","e","s","t","e","r"," ","C","o","m","b","i"," ","C","o","n","v","e","n","t","i","o","n","a","l"," ","a","n","d"," ","S","y","s","t","e","m"," ","B","o","i","l","e","r","s">>,
                      <<"F","l","u","e","s">>,
                      <<"W","o","r","c","e","s","t","e","r"," ","F","l","u","e","s">>,
                      <<"B","O","I","L","E","R","S">> >>,
     subsections |-> << <<"F","l","u","e"," ","C","o","m","p","o","n","e","n","t","s">>,
                         <<"F","l","u","e"," ","C","o","m","p","o","n","e","n","t","s"," ","C","o","n","t","i","n","u","e","d">>,
                         <<"W","o","r","c","e","s","t","e","r"," ","4","4","0","C","D","i"," ","H","i","g","h","f","l","o","w">>,
                         <<"V","a","i","l","l","a","n","t"," ","E","c","o","T","e","c">> >>,
     keywords |-> << <<"f","l","u","e">>,
                      <<"p","l","u","m","e">>,
                      <<"e","l","b","o","w">> >>],
    [filename |-> "heat_pump_accessories.csv",
     sections |-> << <<"A","S","H","P"," ","A","c","c","e","s","s","o","r","i","e","s">>,
                      <<"T","r","u","n","k","i","n","g">>,
                      <<"I","n","s","u","l","a","t","i","o","n">>,
                      <<"M","i","x","e","r","g","y">>,
                      <<"B","u","f","f","e","r"," ","T","a","n","k","s">> >>,
     subsections |-> << >>,
     keywords |-> << <<"t","r","u","n","k","i","n","g">>,
                      <<"i","n","s","u","l","a","t","i","o","n">>,
                      <<"m","i","x","e","r","g","y">>,
                      <<"b","u","f","f","e","r"," ","t","a","n","k">> >>],
    [filename |-> "extras_and_charges.csv",
     sections |-> << <<"E","x","t","r","a","s">>,
                      <<"D","e","l","i","v","e","r","y">>,
                      <<"A","s","s","e","s","s","m","e","n","t">>,
                      <<"P","r","e","m","i","u","m"," ","I","n","s","t","a","l","l">> >>,
     subsections |-> << >>,
     keywords |-> << <<"d","e","l","i","v","e","r","y"," ","c","h","a","r","g","e">>,
                      <<"a","s","s","e","s","s","m","e","n","t">>,
                      <<"p","r","e","m","i","u","m"," ","i","n","s","t","a","l","l">>,
                      <<"c","a","s","h","b","a","c","k">> >>],
    [filename |-> "price_alignment.csv",
     sections |-> << <<"P","r","i","c","e"," ","A","l","i","g","n","m","e","n","t">> >>,
     subsections |-> << >>,
     keywords |-> << >>]
  >>

\* The keywords of is_heading.
heading_keywords == << <<"C","o","r","e"," ","P","a","c","k","s">>,
                       <<"B","o","i","l","e","r">>,
                       <<"H","e","a","t"," ","P","u","m","p">>,
                       <<"A","S","H","P">>,
                       <<"R","a","d","i","a","t","o","r">>,
                       <<"H","i","v","e">>,
                       <<"S","m","a","r","t">>,
                       <<"F","l","u","e">>,
                       <<"E","x","t","r","a">>,
                       <<"P","r","i","c","e"," ","A","l","i","g","n","m","e","n","t">>,
                       <<"C","o","m","b","i">>,
                       <<"S","y","s","t","e","m">>,
                       <<"R","e","g","u","l","a","r">>,
                       <<"N","a","t","u","r","a","l"," ","G","a","s">>,
                       <<"L","P","G">>,
                       <<"C","o","n","t","r","o","l","s">>,
                       <<"E","l","e","c","t","r","i","c","s">>,
                       <<"W","a","s","t","e">>,
                       <<"F","i","l","l","i","n","g"," ","L","o","o","p">>,
                       <<"W","o","r","c","e","s","t","e","r">>,
                       <<"V","a","i","l","l","a","n","t">>,
                       <<"A","c","t","i","v","e"," ","H","e","a","t","i","n","g">>,
                       <<"T","R","V">>,
                       <<"F","u","l","l"," ","S","y","s","t","e","m">>,
                       <<"P","a","r","t"," ","S","y","s","t","e","m">>,
                       <<"W","i","r","i","n","g">>,
                       <<"S","t","a","t","s">>,
                       <<"T","i","m","e","r">>,
                       <<"P","r","o","g","r","a","m","m","e","r">> >>

\* The major sections of parse_pdf.
major_sections == << <<"B","O","I","L","E","R","S">>,
                     <<"C","O","R","E"," ","P","A","C","K","S">>,
                     <<"H","E","A","T"," ","P","U","M","P","S">>,
                     <<"E","X","T","R","A","S">>,
                     <<"P","R","I","C","E"," ","A","L","I","G","N","M","E","N","T">>,
                     <<"S","M","A","R","T">>,
                     <<"H","I","V","E">> >>

\* The file of rows no pass can place.
UNCLASSIFIED == "unclassified.csv"
OutputFiles == {FILE_MAPPING[k].filename : k \in DOMAIN FILE_MAPPING} \cup {UNCLASSIFIED}

\* --------------------------------------------------- the line classifier

\* keyword.lower() for each keyword of is_heading.
heading_keywords_lower == [k \in DOMAIN heading_keywords |-> lower(heading_keywords[k])]

\* COMPONENT_ID_PATTERN.match(t): ^[A-Z][A-Z0-9]*\d+[A-Z]?$ , for t without
\* a line break.  j is the last position of \d+ , the last of t or the one
\* before an upper-case last character; [A-Z0-9]*\d+ matches t[2..j]
\* exactly when t[j] is a digit and every character before it is an
\* upper-case letter or a digit.
COMPONENT_ID_PATTERN(t) ==
    /\ Len(t) >= 2
    /\ IsUpper(t[1])
    /\ \E j \in {Len(t) - 1, Len(t)} \cap 2..Len(t) :
          /\ j = Len(t) \/ IsUpper(t[Len(t)])
          /\ IsDigit(t[j])
          /\ \A k \in 2..j : IsUpper(t[k]) \/ IsDigit(t[k])

is_component_id(text) ==
    IF text = Empty THEN FALSE
    ELSE COMPONENT_ID_PATTERN(strip(text))

\* Variant: is_heading without the tests of the length and the pound sign.
is_heading_KeywordsOnly(text) ==
    IF text = Empty THEN FALSE
    ELSE LET t == strip(text)
             text_clean == strip(rstrip_chars(t, {"0"}))
             text_clean_lower == lower(text_clean)
         IN IF is_component_id(t) THEN FALSE
            ELSE \E k \in DOMAIN heading_keywords :
                    In(heading_keywords_lower[k], text_clean_lower)

\* Variant: is_heading without the test for a component id.
is_heading_NoIdCheck(text) ==
    IF text = Empty THEN FALSE
    ELSE LET t == strip(text)
             text_clean == strip(rstrip_chars(t, {"0"}))
             text_clean_lower == lower(text_clean)
         IN IF Len(t) > 100 THEN FALSE
            ELSE IF In(<< "£" >>, t) THEN FALSE
            ELSE \E k \in DOMAIN heading_keywords :
                    In(heading_keywords_lower[k], text_clean_lower)

is_heading(text) ==
    IF text = Empty THEN FALSE
    ELSE LET t == strip(text)
             text_clean == strip(rstrip_chars(t, {"0"}))
             text_clean_lower == lower(text_clean)
         IN IF is_component_id(t) THEN FALSE
            ELSE IF Len(t) > 100 THEN FALSE
            ELSE IF In(<< "£" >>, t) THEN FALSE
            ELSE \E k \in DOMAIN heading_keywords :
                    In(heading_keywords_lower[k], text_clean_lower)

\* ------------------------------------------------------- the row parser

\* PRICE_PATTERN: £\s*([0-9,]+\.?\d*) .  An attempt anchored at i succeeds
\* exactly when text[i] is the pound sign and the first character after the
\* whitespace that follows it is a digit or a comma.
NoMatch == [start |-> 0, group1 |-> Empty]
AfterRun(text, from, chars) == FirstNotIn(text, chars, from)
PriceMatchesAt(text, i) ==
    /\ text[i] = "£"
    /\ LET j == AfterRun(text, i + 1, Whitespace)
       IN j <= Len(text) /\ text[j] \in Digits \cup {","}
\* PRICE_PATTERN.search(text): the leftmost match, each quantifier greedy.
\* start is the 1-based position of the pound sign.
PRICE_PATTERN_search(text) ==
    LET starts == {i \in 1..Len(text) : PriceMatchesAt(text, i)}
    IN IF starts = {} THEN NoMatch
       ELSE LET i == Min(starts)
                j == AfterRun(text, i + 1, Whitespace)
                k == AfterRun(text, j, Digits \cup {","})
                d == IF k <= Len(text) /\ text[k] = "." THEN k + 1 ELSE k
                e == AfterRun(text, d, Digits)
            IN [start |-> i, group1 |-> SubSeq(text, j, e - 1)]

\* Variant: extract_price reading the amount up to its first comma.
extract_price_StopsAtComma(text) ==
    LET match == PRICE_PATTERN_search(text)
    IN IF match # NoMatch
       THEN LET amount == SubSeq(match.group1, 1, FirstIn(match.group1, {","}, 1) - 1)
                price == float(amount)
            IN IF price = ValueError THEN Zero ELSE price
       ELSE Zero

extract_price(text) ==
    LET match == PRICE_PATTERN_search(text)
    IN IF match # NoMatch
       THEN LET price == float(remove(match.group1, ","))
            IN IF price = ValueError THEN Zero ELSE price
       ELSE Zero

extract_lead_time(text) ==
    LET parts == split(strip(text))
    IN IF parts # << >> /\ isdigit(parts[Len(parts)])
       THEN int(parts[Len(parts)])
       ELSE 0

\* None is the empty tuple; a row is returned as a one-element tuple, and a
\* call that int() makes raise ValueError yields ValueErrorRaised.
None == << >>
ValueErrorRaised == << "ValueError", "int()" >>
\* Variant: parse_component_row with the section and the subsection exchanged.
parse_component_row_SwapSection(text0, current_section, current_subsection) ==
    LET text == strip(text0)
        parts == split(text)
    IN IF Len(parts) < 3 THEN None
       ELSE IF ~is_component_id(parts[1]) THEN None
       ELSE IF extract_price(text) = Zero THEN None
       ELSE IF extract_lead_time(text) < 0 THEN ValueErrorRaised
       ELSE << [section |-> current_subsection,
                subsection |-> current_section,
                component_id |-> parts[1],
                description |-> Empty,
                selling_price_gbp |-> extract_price(text),
                lead_time_days |-> extract_lead_time(text)] >>

\* Variant: parse_component_row reading the lead time before the price.
parse_component_row_LeadTimeFirst(text0, current_section, current_subsection) ==
    LET text == strip(text0)
        parts == split(text)
        price_match == PRICE_PATTERN_search(text)
    IN IF Len(parts) < 3 THEN None
       ELSE IF ~is_component_id(parts[1]) THEN None
       ELSE IF extract_lead_time(text) < 0 THEN ValueErrorRaised
       ELSE IF extract_price(text) = Zero THEN None
       ELSE << [section |-> current_section,
                subsection |-> current_subsection,
                component_id |-> parts[1],
                description |-> strip_chars(strip(SubSeq(text, Len(parts[1]) + 1,
                                                         price_match.start - 1)),
                                            {"\"", "'"}),
                selling_price_gbp |-> extract_price(text),
                lead_time_days |-> extract_lead_time(text)] >>

\* Variant: parse_component_row without the test of the price against 0.0.
parse_component_row_NoZeroCheck(text0, current_section, current_subsection) ==
    LET text == strip(text0)
        parts == split(text)
        price_match == PRICE_PATTERN_search(text)
    IN IF Len(parts) < 3 THEN None
       ELSE IF ~is_component_id(parts[1]) THEN None
       ELSE IF extract_lead_time(text) < 0 THEN ValueErrorRaised
       ELSE IF price_match = NoMatch THEN None
       ELSE << [section |-> current_section,
                subsection |-> current_subsection,
                component_id |-> parts[1],
                description |-> strip_chars(strip(SubSeq(text, Len(parts[1]) + 1,
                                                         price_match.start - 1)),
                                            {"\"", "'"}),
                selling_price_gbp |-> extract_price(text),
                lead_time_days |-> extract_lead_time(text)] >>

\* Variant: parse_component_row without the test of the first token.
parse_component_row_NoIdCheck(text0, current_section, current_subsection) ==
    LET text == strip(text0)
        parts == split(text)
        price_match == PRICE_PATTERN_search(text)
    IN IF Len(parts) < 3 THEN None
       ELSE IF extract_price(text) = Zero THEN None
       ELSE IF extract_lead_time(text) < 0 THEN ValueErrorRaised
       ELSE << [section |-> current_section,
                subsection |-> current_subsection,
                component_id |-> parts[1],
                description |-> strip_chars(strip(SubSeq(text, Len(parts[1]) + 1,
                                                         price_match.start - 1)),
                                            {"\"", "'"}),
                selling_price_gbp |-> extract_price(text),
                lead_time_days |-> extract_lead_time(text)] >>

parse_component_row(text0, current_section, current_subsection) ==
    LET text == strip(text0)
        parts == split(text)
    IN IF Len(parts) < 3 THEN None
       ELSE LET component_id == parts[1]
            IN IF ~is_component_id(component_id) THEN None
               ELSE LET price == extract_price(text)
                    IN IF price = Zero THEN None
                       ELSE LET lead_time == extract_lead_time(text)
                                price_match == PRICE_PATTERN_search(text)
                            IN IF lead_time < 0 THEN ValueErrorRaised
                               ELSE IF price_match = NoMatch THEN None
                               ELSE LET desc_text ==
                                          strip_chars(
                                            strip(SubSeq(text, Len(component_id) + 1,
                                                         price_match.start - 1)),
                                            {"\"", "'"})
                                    IN << [section |-> current_section,
                                           subsection |-> current_subsection,
                                           component_id |-> component_id,
                                           description |-> desc_text,
                                           selling_price_gbp |-> price,
                                           lead_time_days |-> lead_time] >>

\* ------------------------------------------------------------ the router

\* FILE_MAPPING with every label and keyword lowered (s.lower(), ss.lower(),
\* keyword.lower()).
FILE_MAPPING_lower ==
    [k \in DOMAIN FILE_MAPPING |->
        [sections |-> [i \in DOMAIN FILE_MAPPING[k].sections |-> lower(FILE_MAPPING[k].sections[i])],
         subsections |-> [i \in DOMAIN FILE_MAPPING[k].subsections |-> lower(FILE_MAPPING[k].subsections[i])],
         keywords |-> [i \in DOMAIN FILE_MAPPING[k].keywords |-> lower(FILE_MAPPING[k].keywords[i])]]]

\* Variant: only a in b, the label inside the text.
EitherContains_LabelInText(a, b) == In(a, b)

\* a in b or b in a
EitherContains(a, b) == In(a, b) \/ In(b, a)

\* Variant: a subsection matches only when a label of the entry is inside it.
subsection_match_LabelInSubsection(k, subsection_lower) ==
    \E i \in DOMAIN FILE_MAPPING_lower[k].subsections :
        In(FILE_MAPPING_lower[k].subsections[i], subsection_lower)

\* The three tests determine_output_file makes of entry k of the table;
\* section and subsection are given lowered.
section_match(k, section_lower) ==
    \E i \in DOMAIN FILE_MAPPING_lower[k].sections :
        EitherContains(FILE_MAPPING_lower[k].sections[i], section_lower)
subsection_match(k, subsection_lower) ==
    \E i \in DOMAIN FILE_MAPPING_lower[k].subsections :
        EitherContains(FILE_MAPPING_lower[k].subsections[i], subsection_lower)
keyword_match(k, subsection_lower) ==
    \E i \in DOMAIN FILE_MAPPING_lower[k].keywords :
        In(FILE_MAPPING_lower[k].keywords[i], subsection_lower)

\* A pass that returned nothing.
NoFile == ""

\* Variant: a first pass in which an entry without subsections never matches.
RECURSIVE FirstPass_NeedsSubsections(_, _, _)
FirstPass_NeedsSubsections(k, section_lower, subsection_lower) ==
    IF k > Len(FILE_MAPPING) THEN NoFile
    ELSE IF section_match(k, section_lower)
            /\ FILE_MAPPING[k].subsections # << >>
            /\ subsection_match(k, subsection_lower)
         THEN FILE_MAPPING[k].filename
         ELSE FirstPass_NeedsSubsections(k + 1, section_lower, subsection_lower)

\* First pass, from entry k on: section + subsection matches.
RECURSIVE FirstPass(_, _, _)
FirstPass(k, section_lower, subsection_lower) ==
    IF k > Len(FILE_MAPPING) THEN NoFile
    ELSE IF section_match(k, section_lower)
            /\ (FILE_MAPPING[k].subsections = << >> \/ subsection_match(k, subsection_lower))
         THEN FILE_MAPPING[k].filename
         ELSE FirstPass(k + 1, section_lower, subsection_lower)

\* Second pass, from entry k on: subsection-only matches.
RECURSIVE SecondPass(_, _)
SecondPass(k, subsection_lower) ==
    IF k > Len(FILE_MAPPING) THEN NoFile
    ELSE IF FILE_MAPPING[k].subsections # << >> /\ subsection_match(k, subsection_lower)
         THEN FILE_MAPPING[k].filename
         ELSE SecondPass(k + 1, subsection_lower)

\* Third pass, from entry k on: keywords in the subsection.
RECURSIVE ThirdPass(_, _)
ThirdPass(k, subsection_lower) ==
    IF k > Len(FILE_MAPPING) THEN NoFile
    ELSE IF FILE_MAPPING[k].keywords # << >> /\ keyword_match(k, subsection_lower)
         THEN FILE_MAPPING[k].filename
         ELSE ThirdPass(k + 1, subsection_lower)

\* Variant: the section and the subsection are compared as given, not lowered.
determine_output_file_CaseSensitive(section0, subsection0) ==
    LET first == FirstPass(1, section0, subsection0)
        second == SecondPass(1, subsection0)
        third == ThirdPass(1, subsection0)
    IN IF first # NoFile THEN first
       ELSE IF second # NoFile THEN second
       ELSE IF third # NoFile THEN third
       ELSE UNCLASSIFIED

\* Variant: the subsection-only pass is consulted before the first pass.
determine_output_file_SubsectionFirst(section0, subsection0) ==
    LET section_lower == lower(section0)
        subsection_lower == lower(subsection0)
        first == FirstPass(1, section_lower, subsection_lower)
        second == SecondPass(1, subsection_lower)
        third == ThirdPass(1, subsection_lower)
    IN IF second # NoFile THEN second
       ELSE IF first # NoFile THEN first
       ELSE IF third # NoFile THEN third
       ELSE UNCLASSIFIED

\* Variant: without the keyword pass.
determine_output_file_NoKeywordPass(section0, subsection0) ==
    LET section_lower == lower(section0)
        subsection_lower == lower(subsection0)
        first == FirstPass(1, section_lower, subsection_lower)
        second == SecondPass(1, subsection_lower)
    IN IF first # NoFile THEN first
       ELSE IF second # NoFile THEN second
       ELSE UNCLASSIFIED

determine_output_file(section0, subsection0) ==
    LET section_lower == lower(section0)
        subsection_lower == lower(subsection0)
        first == FirstPass(1, section_lower, subsection_lower)
        second == SecondPass(1, subsection_lower)
        third == ThirdPass(1, subsection_lower)
    IN IF first # NoFile THEN first
       ELSE IF second # NoFile THEN second
       ELSE IF third # NoFile THEN third
       ELSE UNCLASSIFIED

\* ---------------------------------------------------------------- state

VARIABLES
    pc,                  \* "pages" inside the loop of parse_pdf, "done" after its
                         \* return, "error" after an exception left it
    in_page,             \* TRUE while the lines of a page with text are iterated
    lines_read,          \* history: the lines taken from the pages so far
    current_section,
    current_subsection,
    rows_by_file,        \* defaultdict(list): a missing key reads as the empty list
    section,             \* the router alone: its two arguments
    subsection,
    output_file          \* the router alone: its result, NoFile before the call

vars == << pc, in_page, lines_read, current_section, current_subsection,
           rows_by_file, section, subsection, output_file >>
pipeline_vars == << pc, in_page, lines_read, current_section,
                    current_subsection, rows_by_file >>
router_vars == << section, subsection, output_file >>

\* The lines a page's text may hold, as text.split('\n') yields them.
RawLines == {
    <<"B","O","I","L","E","R","S","0">>,
    <<"B","o","i","l","e","r","s","0">>,
    <<"C","o","m","b","i"," ","N","a","t","u","r","a","l"," ","G","a","s","0">>,
    <<"C","o","m","b","i"," ","L","P","G"," ","0">>,
    <<" "," ","H","i","v","e"," ","T","R","V","0">>,
    <<"A","B","1","2","3"," ","W","o","r","c","e","s","t","e","r"," ","C","o","m","b","i"," ","£","8","5","0",".","0","0"," ","1","0">>,
    <<"A","B","C","1","2","3"," ","S","o","m","e"," ","d","e","s","c","r","i","p","t","i","o","n"," ","£","1",",","2","3","4",".","5","6"," ","1","4">>,
    <<"A","B","1","2"," ","F","r","e","e"," ","s","a","m","p","l","e"," ","£","0",".","0","0"," ","5">>,
    <<"F","l","u","e"," ","n","o","t","e"," ","£","5"," ","1">>,
    <<"A","B","1"," ","x">>,
    <<"0">>,
    <<" ">>,
    <<"A","B","1","2"," ","W","i","d","g","e","t"," ","p","l","a","i","n"," ","²">>,
    <<"A","B","1"," ","x"," ","£","5"," ","²">>,
    <<"W","o","r","c","e","s","t","e","r"," ","C","o","m","b","i"," ",".",".",".",".",".",".",".",".",".",".",".",".",".",".",".",".",".",".",".",".",".",".",".",".",".",".",".",".",".",".",".",".",".",".",".",".",".",".",".",".",".",".",".",".",".",".",".",".",".",".",".",".",".",".",".",".",".",".",".",".",".",".",".",".",".",".",".",".",".",".",".",".",".",".",".",".",".",".",".",".",".",".",".",".",".">> }

ParseInit ==
    /\ pc = "pages"
    /\ in_page = FALSE
    /\ lines_read = << >>
    /\ current_section = Empty
    /\ current_subsection = Empty
    /\ rows_by_file = [f \in OutputFiles |-> << >>]

RouterIdle ==
    /\ section = Empty
    /\ subsection = Empty
    /\ output_file = NoFile

Init == ParseInit /\ RouterIdle

\* ------------------------------------------------------------- parse_pdf

\* Variant: NextPage, with the section state reset at every page.
NextPage_Reset(has_text) ==
    /\ pc = "pages"
    /\ in_page' = has_text
    /\ current_section' = Empty
    /\ current_subsection' = Empty
    /\ UNCHANGED << pc, lines_read, rows_by_file, router_vars >>

\* The next page of pdf.pages (of which there may be any number; page_num is
\* only printed).  A page whose text is empty is passed over: its lines are
\* not iterated.
NextPage(has_text) ==
    /\ pc = "pages"
    /\ in_page' = has_text
    /\ UNCHANGED << pc, lines_read, current_section, current_subsection,
                    rows_by_file, router_vars >>

\* Variant: a new section keeps the subsection of the one before.
UpdateSection_KeepSubsection(line, cur_section, cur_subsection) ==
    LET line_clean == strip(rstrip_chars(line, {"0"}))
        is_major == \E k \in DOMAIN major_sections : In(major_sections[k], upper(line_clean))
    IN IF is_major \/ cur_section = Empty
       THEN << line_clean, cur_subsection >>
       ELSE << cur_section, line_clean >>

\* Variant: the major sections are looked for in the label as it is written.
UpdateSection_MajorAsWritten(line, cur_section, cur_subsection) ==
    LET line_clean == strip(rstrip_chars(line, {"0"}))
        is_major == \E k \in DOMAIN major_sections : In(major_sections[k], line_clean)
    IN IF is_major \/ cur_section = Empty
       THEN << line_clean, Empty >>
       ELSE << cur_section, line_clean >>

\* The section state after a heading line: << section, subsection >>.
UpdateSection(line, cur_section, cur_subsection) ==
    LET line_clean == strip(rstrip_chars(line, {"0"}))
        is_major == \E k \in DOMAIN major_sections : In(major_sections[k], upper(line_clean))
    IN IF is_major \/ cur_section = Empty
       THEN << line_clean, Empty >>
       ELSE << cur_section, line_clean >>

\* Variant: the row is appended to the unclassified file as well.
AppendRow_AlsoUnclassified(rows, file, row) ==
    [f \in OutputFiles |->
        IF f = file \/ f = UNCLASSIFIED THEN Append(rows[f], row) ELSE rows[f]]

\* Variant: the row is put at the front of its file.
AppendRow_AtFront(rows, file, row) ==
    [rows EXCEPT ![file] = << row >> \o @]

\* rows_by_file[output_file].append(row)
AppendRow(rows, file, row) ==
    [rows EXCEPT ![file] = Append(@, row)]

\* One iteration of the loop over the lines of a page.  A ValueError raised
\* under parse_component_row is caught nowhere: it leaves parse_pdf, which
\* then returns no rows.
ProcessLine(raw) ==
    /\ pc = "pages"
    /\ in_page
    /\ Len(lines_read) < MaxLines
    /\ lines_read' = Append(lines_read, raw)
    /\ LET line == strip(raw)
       IN IF line = Empty \/ line = << "0" >>
          THEN UNCHANGED << pc, in_page, current_section, current_subsection, rows_by_file >>
          ELSE IF is_heading(line)
          THEN LET state == UpdateSection(line, current_section, current_subsection)
               IN /\ current_section' = state[1]
                  /\ current_subsection' = state[2]
                  /\ UNCHANGED << pc, in_page, rows_by_file >>
          ELSE LET row == parse_component_row(line, current_section, current_subsection)
               IN IF row = ValueErrorRaised
                  THEN /\ pc' = "error"
                       /\ in_page' = FALSE
                       /\ UNCHANGED << current_section, current_subsection, rows_by_file >>
                  ELSE IF row # None
                  THEN /\ rows_by_file' =
                            AppendRow(rows_by_file,
                                      determine_output_file(row[1].section, row[1].subsection),
                                      row[1])
                       /\ UNCHANGED << pc, in_page, current_section, current_subsection >>
                  ELSE UNCHANGED << pc, in_page, current_section, current_subsection,
                                    rows_by_file >>
    /\ UNCHANGED router_vars

\* The pages are exhausted: parse_pdf returns rows_by_file.
Return ==
    /\ pc = "pages"
    /\ pc' = "done"
    /\ in_page' = FALSE
    /\ UNCHANGED << lines_read, current_section, current_subsection,
                    rows_by_file, router_vars >>

Next ==
    \/ \E has_text \in BOOLEAN : NextPage(has_text)
    \/ \E raw \in RawLines : ProcessLine(raw)
    \/ Return

Spec == Init /\ [][Next]_vars

\* ------------------------------------------------------ the router alone

SectionParts == { <<"B","o","i","l","e","r","s">>, <<"E","x","t","r","a","s">>, <<"H","i","v","e">>, <<"Z","o","n","e">> }
SubsectionParts == { <<"H","i","v","e">>, <<"C","o","m","b","i"," ","N","a","t","u","r","a","l"," ","G","a","s">>, <<"F","u","l","l"," ","S","y","s","t","e","m">>, <<"T","h","e","r","m","o","s","t","a","t">>, <<"Z","o","n","e">> }

\* The labels of at most MaxParts parts, joined by single spaces.
Labels(parts) == {join(p) : p \in UNION {[1..n -> parts] : n \in 0..MaxParts}}

RouterInit ==
    /\ ParseInit
    /\ section \in Labels(SectionParts)
    /\ subsection \in Labels(SubsectionParts)
    /\ output_file = NoFile

Route ==
    /\ output_file = NoFile
    /\ output_file' = determine_output_file(section, subsection)
    /\ UNCHANGED << section, subsection, pipeline_vars >>

RouterNext == Route

RouterSpec == RouterInit /\ [][RouterNext]_vars

\* ---------------------------------------------------- reading the state

\* A step of ProcessLine, and the line it read, trimmed as the loop trims it
\* (a set of one line, for a quantifier to bind it).
ReadsLine == lines_read' # lines_read
LineRead == {strip(lines_read'[Len(lines_read')])}
\* The line most recently read, trimmed.
LastLine == strip(lines_read[Len(lines_read)])
\* A step that read a line is_heading accepts.
ReadsHeading == ReadsLine /\ \E line \in LineRead : is_heading(line)
\* The line is one parse_pdf hands to parse_component_row and gets a row for.
Accepted(line) ==
    /\ line # Empty /\ line # << "0" >>
    /\ ~is_heading(line)
    /\ parse_component_row(line, Empty, Empty) \notin {None, ValueErrorRaised}
\* The number of accepted lines among those read.
AcceptedCount == Cardinality({i \in 1..Len(lines_read) : Accepted(strip(lines_read[i]))})

\* Where the rows are: << file, position >>.
RowPlaces == UNION {{f} \X (1..Len(rows_by_file[f])) : f \in OutputFiles}
TotalRows == Cardinality(RowPlaces)
Grown == {f \in OutputFiles : rows_by_file'[f] # rows_by_file[f]}

\* a contains b, case-insensitively.
Contains(a, b) == In(lower(b), lower(a))

\* The rules of the table, by position, and what it is for one to match in
\* each tier: a label of the rule contains, or is contained by, the section
\* (the subsection), or a keyword of the rule is contained by the
\* subsection, all in lower case.
Rules == DOMAIN FILE_MAPPING
RuleOf(file) == CHOOSE k \in Rules : FILE_MAPPING[k].filename = file
Touches(labels, s) == \E i \in DOMAIN labels : In(labels[i], s) \/ In(s, labels[i])
Tier1(k, s, ss) ==
    /\ Touches(FILE_MAPPING_lower[k].sections, s)
    /\ FILE_MAPPING[k].subsections = << >> \/ Touches(FILE_MAPPING_lower[k].subsections, ss)
Tier2(k, ss) == Touches(FILE_MAPPING_lower[k].subsections, ss)
Tier3(k, ss) ==
    \E i \in DOMAIN FILE_MAPPING[k].keywords : In(FILE_MAPPING_lower[k].keywords[i], ss)
Tier1Rules == {k \in Rules : Tier1(k, lower(section), lower(subsection))}
Tier2Rules == {k \in Rules : Tier2(k, lower(subsection))}
Tier3Rules == {k \in Rules : Tier3(k, lower(subsection))}
\* The router has been called on (section, subsection).
Routed == output_file # NoFile

\* ----------------------------------------------------------- properties

\* C1 (as claimed): after the lines "BOILERS0", "Combi Natural Gas0",
\* "AB123 Worcester Combi £850.00 10" parse_pdf has produced exactly one row,
\* held by boilers_combi_ng, with component id AB123, price 850.00 and lead
\* time 10.
C1_Lines == << <<"B","O","I","L","E","R","S","0">>, <<"C","o","m","b","i"," ","N","a","t","u","r","a","l"," ","G","a","s","0">>, <<"A","B","1","2","3"," ","W","o","r","c","e","s","t","e","r"," ","C","o","m","b","i"," ","£","8","5","0",".","0","0"," ","1","0">> >>
C1_EndToEnd ==
    (pc = "done" /\ lines_read = C1_Lines) =>
        /\ TotalRows = 1
        /\ Len(rows_by_file["boilers_combi_ng.csv"]) = 1
        /\ rows_by_file["boilers_combi_ng.csv"][1].component_id = <<"A","B","1","2","3">>
        /\ rows_by_file["boilers_combi_ng.csv"][1].selling_price_gbp = [mant |-> 850, exp |-> 0]
        /\ rows_by_file["boilers_combi_ng.csv"][1].lead_time_days = 10

\* C2: a row appended by a step carries the section and subsection that were
\* current before the step's line was read, and no step changes or removes
\* a row already held.
C2_RowCarriesStateBeforeItsLine ==
    [][\A f \in OutputFiles :
          /\ Len(rows_by_file'[f]) >= Len(rows_by_file[f])
          /\ SubSeq(rows_by_file'[f], 1, Len(rows_by_file[f])) = rows_by_file[f]
          /\ \A i \in (Len(rows_by_file[f]) + 1)..Len(rows_by_file'[f]) :
                /\ rows_by_file'[f][i].section = current_section
                /\ rows_by_file'[f][i].subsection = current_subsection]_vars
\* A row is held whose section or subsection is no longer the current one: a
\* heading came after it.
C2_Witness ==
    \E p \in RowPlaces :
        << rows_by_file[p[1]][p[2]].section, rows_by_file[p[1]][p[2]].subsection >>
            # << current_section, current_subsection >>

\* C3 (as claimed): after a heading line, with L the line with its trailing
\* "0" characters stripped: if upper(L) contains a major section or the
\* current section was empty, the section is L and the subsection empty;
\* otherwise the subsection is L and the section is unchanged.
C3_LabelIsLineWithoutZeros ==
    [][ReadsHeading =>
          \A L \in {rstrip_chars(line, {"0"}) : line \in LineRead} :
             IF (\E k \in DOMAIN major_sections : In(major_sections[k], upper(L)))
                \/ current_section = Empty
             THEN current_section' = L /\ current_subsection' = Empty
             ELSE current_subsection' = L /\ current_section' = current_section]_vars
\* C3 (amended): the same, with L the line with its trailing "0" characters
\* stripped and then trimmed of surrounding whitespace.
C3_HeadingTransition ==
    [][ReadsHeading =>
          \A L \in {strip(rstrip_chars(line, {"0"})) : line \in LineRead} :
             IF (\E k \in DOMAIN major_sections : In(major_sections[k], upper(L)))
                \/ current_section = Empty
             THEN current_section' = L /\ current_subsection' = Empty
             ELSE current_subsection' = L /\ current_section' = current_section]_vars
\* The last line read was a heading that became the subsection of a section.
C3_Witness ==
    /\ Len(lines_read) >= 2
    /\ is_heading(LastLine)
    /\ current_section # Empty
    /\ current_subsection = strip(rstrip_chars(LastLine, {"0"}))

\* C4: a step that does not read a heading line (a skipped line, a row kept
\* or rejected, the passage to another page, with text or without) leaves
\* the section and the subsection as they were.
C4_OnlyHeadingsChangeState ==
    [][~ReadsHeading => UNCHANGED << current_section, current_subsection >>]_vars
\* A page without text follows a line that was no heading, and the section
\* set before them is still there.
C4_Witness ==
    /\ pc = "pages" /\ ~in_page
    /\ Len(lines_read) >= 2
    /\ ~is_heading(LastLine)
    /\ current_section # Empty

\* C5 (as claimed): whatever the section, a subsection that contains "hive"
\* is routed to smart_hive.
C5_HiveAlwaysSmartHive ==
    (Routed /\ Contains(subsection, <<"h","i","v","e">>)) => output_file = "smart_hive.csv"
\* C5 (amended): a subsection that contains "hive" is routed to smart_hive
\* when no other rule matches in tier 1, no other rule matches in tier 2,
\* and no rule placed before smart_hive has a keyword in the subsection.
C5_HiveSmartHiveUnlessOtherRule ==
    (/\ Routed
     /\ Contains(subsection, <<"h","i","v","e">>)
     /\ Tier1Rules \subseteq {RuleOf("smart_hive.csv")}
     /\ Tier2Rules \subseteq {RuleOf("smart_hive.csv")}
     /\ \A k \in Tier3Rules : k >= RuleOf("smart_hive.csv"))
    => output_file = "smart_hive.csv"
\* A subsection with "hive" in it reached smart_hive through its keyword:
\* no rule matched in tier 1 or tier 2.
C5_Witness ==
    /\ Routed
    /\ Contains(subsection, <<"h","i","v","e">>)
    /\ section # Empty
    /\ Tier1Rules = {} /\ Tier2Rules = {}
    /\ output_file = "smart_hive.csv"

\* C6: the result is the first rule of the table that matches in tier 1 when
\* one does; else the first that matches in tier 2 when one does; else the
\* first that matches in tier 3 when one does.
C6_TiersInOrder ==
    Routed =>
        /\ Tier1Rules # {} => output_file = FILE_MAPPING[Min(Tier1Rules)].filename
        /\ (Tier1Rules = {} /\ Tier2Rules # {}) =>
              output_file = FILE_MAPPING[Min(Tier2Rules)].filename
        /\ (Tier1Rules = {} /\ Tier2Rules = {} /\ Tier3Rules # {}) =>
              output_file = FILE_MAPPING[Min(Tier3Rules)].filename
\* A rule matched in tier 1 and was returned although a rule before it in
\* the table matches in tier 2.
C6_Witness ==
    /\ Routed
    /\ Tier1Rules # {}
    /\ \E k \in Tier2Rules : k < Min(Tier1Rules)
    /\ output_file = FILE_MAPPING[Min(Tier1Rules)].filename

\* C7: section "Boilers" with subsection "Combi Natural Gas" is routed to
\* boilers_combi_ng.
C7_BoilersCombiNaturalGas ==
    (Routed /\ section = <<"B","o","i","l","e","r","s">> /\ subsection = <<"C","o","m","b","i"," ","N","a","t","u","r","a","l"," ","G","a","s">>)
    => output_file = "boilers_combi_ng.csv"
C7_Witness ==
    /\ section = <<"B","o","i","l","e","r","s">> /\ subsection = <<"C","o","m","b","i"," ","N","a","t","u","r","a","l"," ","G","a","s">>
    /\ output_file = "boilers_combi_ng.csv"

\* C8: the router always returns a file of the table or unclassified, and
\* unclassified exactly when no rule matches in tier 1, tier 2 or tier 3.
C8_UnclassifiedIffNoRuleMatches ==
    Routed =>
        /\ output_file \in OutputFiles
        /\ output_file = UNCLASSIFIED
              <=> (Tier1Rules = {} /\ Tier2Rules = {} /\ Tier3Rules = {})
C8_Witness ==
    /\ output_file = UNCLASSIFIED
    /\ section # Empty /\ subsection # Empty

\* C9: a line is_heading accepts does not have the shape of a component id,
\* and a line of that shape leaves the section and the subsection as they
\* were.
C9_HeadingIsNoComponentId ==
    [][ReadsLine =>
          \A line \in LineRead :
             /\ is_heading(line) => ~COMPONENT_ID_PATTERN(line)
             /\ COMPONENT_ID_PATTERN(line) =>
                   UNCHANGED << current_section, current_subsection >>]_vars
\* The line "BOILERS0", a heading keyword in capitals with the trailing "0",
\* was read first and the section is still empty.
C9_Witness ==
    /\ lines_read = << <<"B","O","I","L","E","R","S","0">> >>
    /\ COMPONENT_ID_PATTERN(LastLine)
    /\ current_section = Empty

\* C10: the files together always hold as many rows as lines were accepted
\* by parse_component_row, and a step appends one row to one file when its
\* line is accepted and changes no file otherwise.
C10_OneFilePerRow ==
    /\ [](TotalRows = AcceptedCount)
    /\ [][IF ReadsLine /\ \E line \in LineRead : Accepted(line)
          THEN \E f \in OutputFiles :
                  /\ Grown = {f}
                  /\ Len(rows_by_file'[f]) = Len(rows_by_file[f]) + 1
                  /\ SubSeq(rows_by_file'[f], 1, Len(rows_by_file[f])) = rows_by_file[f]
          ELSE Grown = {}]_vars
\* Two rows are held, in two different files.
C10_Witness ==
    /\ TotalRows = 2
    /\ \E p, q \in RowPlaces : p[1] # q[1]

\* The first whitespace-separated token of a trimmed line (Empty if none).
FirstToken(line) == SubSeq(line, 1, FirstIn(line, Whitespace, 1) - 1)
\* ids, in their order, are among tokens, in their order.
RECURSIVE InOrderAmong(_, _)
InOrderAmong(ids, tokens) ==
    IF ids = << >> THEN TRUE
    ELSE IF tokens = << >> THEN FALSE
    ELSE IF Head(ids) = Head(tokens) THEN InOrderAmong(Tail(ids), Tail(tokens))
    ELSE InOrderAmong(ids, Tail(tokens))

\* C11: within every file the rows are in document order: their component
\* ids are, in order, first tokens of lines read in that order; and a step
\* leaves a file as it is or adds, behind the rows it holds, one row of the
\* line just read, so that a row once appended is never moved or removed.
C11_DocumentOrder ==
    /\ [](\A f \in OutputFiles :
            InOrderAmong([i \in 1..Len(rows_by_file[f]) |-> rows_by_file[f][i].component_id],
                         [i \in 1..Len(lines_read) |-> FirstToken(strip(lines_read[i]))]))
    /\ [][\A f \in OutputFiles :
            \/ rows_by_file'[f] = rows_by_file[f]
            \/ /\ ReadsLine
               /\ Len(rows_by_file'[f]) = Len(rows_by_file[f]) + 1
               /\ \A i \in 1..Len(rows_by_file[f]) : rows_by_file'[f][i] = rows_by_file[f][i]
               /\ \E line \in LineRead :
                     rows_by_file'[f][Len(rows_by_file'[f])].component_id = FirstToken(line)]_vars
\* A file holds the rows of two different lines, the earlier line's first.
C11_Witness ==
    \E f \in OutputFiles :
        /\ Len(rows_by_file[f]) >= 2
        /\ Len(lines_read) = 2
        /\ rows_by_file[f][1].component_id = FirstToken(strip(lines_read[1]))
        /\ rows_by_file[f][2].component_id = FirstToken(strip(lines_read[2]))
        /\ rows_by_file[f][1].component_id # rows_by_file[f][2].component_id

\* C12: every row held in every file has a component id of the
\* component-id shape, and a line whose first whitespace-separated token is
\* not of that shape adds no row to any file.
C12_ComponentIdShape ==
    /\ [](\A p \in RowPlaces : COMPONENT_ID_PATTERN(rows_by_file[p[1]][p[2]].component_id))
    /\ [][(ReadsLine /\ \E line \in LineRead : ~COMPONENT_ID_PATTERN(FirstToken(line)))
             => UNCHANGED rows_by_file]_vars
\* A row is held, and the line read last was turned down for its first token
\* alone: it is no heading, has three tokens or more and a price above zero.
C12_Witness ==
    /\ TotalRows >= 1
    /\ pc = "pages"
    /\ ~is_heading(LastLine)
    /\ Len(split(LastLine)) >= 3
    /\ extract_price(LastLine) # Zero
    /\ ~COMPONENT_ID_PATTERN(FirstToken(LastLine))

\* The line holds no pound sign followed by an amount.
NoAmount(line) == PRICE_PATTERN_search(line) = NoMatch
\* The line holds such an amount, and the amount has no digit but 0.
ZeroAmount(line) ==
    /\ ~NoAmount(line)
    /\ LET amount == PRICE_PATTERN_search(line).group1
       IN \A i \in 1..Len(amount) : amount[i] \in {"0", ",", "."}
\* The line would be a row but for its price: no heading, three tokens or
\* more, the first a component id.
RowButForPrice(line) ==
    /\ ~is_heading(line)
    /\ Len(split(line)) >= 3
    /\ COMPONENT_ID_PATTERN(FirstToken(line))

\* C13: every row held has a selling price above zero and a lead time of
\* zero or more, and a line with no pound amount, or with a pound amount of
\* exactly zero, adds no row to any file.
C13_PriceAboveZero ==
    /\ [](\A p \in RowPlaces :
            /\ rows_by_file[p[1]][p[2]].selling_price_gbp.mant > 0
            /\ rows_by_file[p[1]][p[2]].lead_time_days >= 0)
    /\ [][(ReadsLine /\ \E line \in LineRead : NoAmount(line) \/ ZeroAmount(line))
             => UNCHANGED rows_by_file]_vars
\* A row is held, and among the lines read after it are one turned down for
\* having no amount and one turned down for an amount of zero.
C13_Witness ==
    /\ TotalRows >= 1
    /\ \E i, j \in 2..Len(lines_read) :
          /\ RowButForPrice(strip(lines_read[i])) /\ NoAmount(strip(lines_read[i]))
          /\ RowButForPrice(strip(lines_read[j])) /\ ZeroAmount(strip(lines_read[j]))

\* C14: the line "ABC123 Some description £1,234.56 14" gives a row with
\* component id "ABC123", selling price 1234.56, lead time 14 and description
\* "Some description": the step that reads it appends that row to one file.
C14_Line == <<"A","B","C","1","2","3"," ","S","o","m","e"," ","d","e","s","c","r","i","p","t","i","o","n"," ","£","1",",","2","3","4",".","5","6"," ","1","4">>
C14_ExampleRow ==
    [][(ReadsLine /\ LineRead = {C14_Line}) =>
          \E f \in OutputFiles :
             /\ Grown = {f}
             /\ LET row == rows_by_file'[f][Len(rows_by_file'[f])]
                IN /\ row.component_id = <<"A","B","C","1","2","3">>
                   /\ row.selling_price_gbp = [mant |-> 123456, exp |-> 2]
                   /\ row.lead_time_days = 14
                   /\ row.description = <<"S","o","m","e"," ","d","e","s","c","r","i","p","t","i","o","n">>]_vars
\* The line has been read under a subsection and its row is held.
C14_Witness ==
    /\ Len(lines_read) >= 1
    /\ LastLine = C14_Line
    /\ current_subsection # Empty
    /\ \E p \in RowPlaces : rows_by_file[p[1]][p[2]].component_id = <<"A","B","C","1","2","3">>

\* The line goes to parse_component_row (it is not blank, not "0" and no
\* heading) and is one of those the claim lists: fewer than three tokens, a
\* first token that is no component id, no pound amount, or an amount of
\* zero.
Rejected(line) ==
    /\ line # Empty /\ line # << "0" >>
    /\ ~is_heading(line)
    /\ \/ Len(split(line)) < 3
       \/ ~COMPONENT_ID_PATTERN(FirstToken(line))
       \/ NoAmount(line)
       \/ ZeroAmount(line)

\* C15: a step that reads such a line raises nothing and leaves every file,
\* the section and the subsection as they were; parse_pdf is still in its
\* loop over the lines of the page, the next line to come.
C15_RejectedLineDropped ==
    [][(ReadsLine /\ \E line \in LineRead : Rejected(line)) =>
          /\ pc' = "pages"
          /\ in_page'
          /\ UNCHANGED << rows_by_file, current_section, current_subsection >>]_vars
\* A line was turned down under a section and the next line gave a row: the
\* three lines read are a heading, the line dropped, and a row.
C15_Witness ==
    /\ Len(lines_read) = 3
    /\ TotalRows >= 1
    /\ Rejected(strip(lines_read[2]))
    /\ Accepted(strip(lines_read[3]))
    /\ current_section # Empty

\* The line holds a pound sign ; the line is longer than 100 characters ; the
\* line holds the heading keyword "Combi" or "Worcester".
Priced(line) == In(<< "£" >>, line)
Long(line) == Len(line) > 100
Keyworded(line) == Contains(line, <<"C","o","m","b","i">>) \/ Contains(line, <<"W","o","r","c","e","s","t","e","r">>)

\* C16: a line that holds a pound sign or is longer than 100 characters is
\* no heading, whatever keywords it holds, and the step that reads it leaves
\* the section and the subsection as they were.
C16_PricedOrLongIsNoHeading ==
    [][(ReadsLine /\ \E line \in LineRead : Priced(line) \/ Long(line)) =>
          /\ \A line \in LineRead : ~is_heading(line)
          /\ UNCHANGED << current_section, current_subsection >>]_vars
\* After a heading, a priced line and a long line were read, both with a
\* heading keyword in them, and the section is still that heading's.
C16_Witness ==
    /\ Len(lines_read) = 3
    /\ is_heading(strip(lines_read[1]))
    /\ Priced(strip(lines_read[2])) /\ Keyworded(strip(lines_read[2]))
    /\ Long(strip(lines_read[3])) /\ Keyworded(strip(lines_read[3]))
    /\ ~Priced(strip(lines_read[3]))
    /\ current_section = strip(rstrip_chars(strip(lines_read[1]), {"0"}))
    /\ current_subsection = Empty

\* C17: the router returns the unclassified file only for a section and a
\* subsection that are both non-empty.  An empty section touches the section
\* labels of every entry and an empty subsection the subsection labels of
\* every entry that has any, so that with an empty section the file comes
\* from the first pass, and with an empty subsection from the first or the
\* second.
C17_EmptyLabelIsRouted ==
    Routed =>
        /\ output_file = UNCLASSIFIED => section # Empty /\ subsection # Empty
        /\ section = Empty =>
              /\ \A k \in Rules : Touches(FILE_MAPPING_lower[k].sections, Empty)
              /\ RuleOf(output_file) \in Tier1Rules
        /\ subsection = Empty =>
              /\ \A k \in Rules : FILE_MAPPING[k].subsections # << >> =>
                    Touches(FILE_MAPPING_lower[k].subsections, Empty)
              /\ RuleOf(output_file) \in Tier1Rules \cup Tier2Rules
\* The router was called with an empty section and a subsection that no
\* label touches and no keyword is in: the first pass alone placed it.
C17_Witness ==
    /\ Routed
    /\ section = Empty
    /\ subsection # Empty
    /\ Tier2Rules = {} /\ Tier3Rules = {}
    /\ output_file # UNCLASSIFIED

\* No line read so far is a heading.
NoHeadingYet == \A i \in 1..Len(lines_read) : ~is_heading(strip(lines_read[i]))

\* C18: the section is empty exactly while no heading has been read, and
\* the subsection is empty then too; a row of a line read then carries both
\* empty and goes to core_packs.
C18_BeforeFirstHeading ==
    /\ []((current_section = Empty) = NoHeadingYet)
    /\ [](current_section = Empty => current_subsection = Empty)
    /\ [][(Grown # {} /\ current_section = Empty) =>
            /\ Grown = {"core_packs.csv"}
            /\ LET row == rows_by_file'["core_packs.csv"][Len(rows_by_file'["core_packs.csv"])]
               IN row.section = Empty /\ row.subsection = Empty]_vars
\* Two rows are held and no heading has been read.
C18_Witness ==
    /\ TotalRows = 2
    /\ NoHeadingYet
    /\ Len(rows_by_file["core_packs.csv"]) = 2

\* C19: the subsection never holds a major-section marker, in whatever
\* case; no row held has a subsection with "hive" in it; and the subsection
\* is non-empty only while the section is.
C19_SubsectionHoldsNoMarker ==
    /\ \A k \in DOMAIN major_sections : ~Contains(current_subsection, major_sections[k])
    /\ \A p \in RowPlaces : ~Contains(rows_by_file[p[1]][p[2]].subsection, <<"h","i","v","e">>)
    /\ current_subsection # Empty => current_section # Empty
\* Under a section and a subsection, a heading with "Hive" in it was read:
\* it became the section, and the subsection was emptied.
C19_Witness ==
    /\ Len(lines_read) = 3
    /\ is_heading(strip(lines_read[1]))
    /\ is_heading(strip(lines_read[2]))
    /\ \A k \in DOMAIN major_sections : ~Contains(strip(lines_read[2]), major_sections[k])
    /\ Contains(LastLine, <<"h","i","v","e">>) /\ ~In(<<"H","I","V","E">>, LastLine)
    /\ Contains(current_section, <<"h","i","v","e">>)
    /\ current_subsection = Empty

====
